---- MODULE Spec2Model ----
(***************************************************************************)
(* Model of the real-time audio bridge GeminiLiveService                   *)
(* (src/services/geminiLiveService.ts): connection lifecycle, inbound      *)
(* message handling (tool invocations and playback chunks), playback       *)
(* scheduling against the output audio clock, and the control surface.     *)
(*                                                                         *)
(* Execution is single-threaded and event-driven.  Every action below is   *)
(* one run-to-suspension segment of a handler: it starts at an external    *)
(* event (a user call, a stream message, a settled promise) and runs up to *)
(* the next await whose promise is settled by a later event.               *)
(*                                                                         *)
(* Time is counted in output samples (1 tick = 1 sample at 24000 Hz), so   *)
(* the duration of a decoded chunk of n bytes is n \div 2 ticks.           *)
(*                                                                         *)
(* connect() is called from a user gesture (src/App.tsx:133-134), so both  *)
(* audio contexts are created running and the two resume awaits of         *)
(* connect() (lines 144-149) are not taken.                                *)
(*                                                                         *)
(* The application around the bridge (src/App.tsx) is modelled in its own  *)
(* section: its state, its buttons and the tool handlers it registers,     *)
(* over the services it creates.                                           *)
(***************************************************************************)
EXTENDS Integers, Sequences, FiniteSets, TLC

\* ------------------------------------------------------------------ bounds
MaxChunks == 2
MaxToolMsgs == 2
MaxCalls == 2
MaxInvocations == 2
MaxBytes == 4
MaxTime == 2
MaxOps == 1
MaxCaptures == 3
MaxLen == 3
MaxBlock == 21
GridBits == 6
MaxServices == 2
MaxToolCalls == 2

VARIABLES
    pc,             \* position of the connect() call: idle/handshake/mic/done/failed
    session,        \* this.session: null / open / closed
    inCtx,          \* this.inputAudioContext state: null/running/suspended/closed
    outCtx,         \* this.outputAudioContext state
    graph,          \* inputSource + processor: null / connected / disconnected
    mediaStream,    \* this.mediaStream: null / live / stopped
    micEnabled,     \* track.enabled of the microphone tracks
    nextStartTime,  \* the PlaybackCursor
    now,            \* outputAudioContext.currentTime
    ctxOps,         \* control operations pending on an output context, FIFO
    scheduled,      \* sources started on the current output context, in start() order
    dropped,        \* ids of chunks whose decode/schedule threw inside queueAudio
    arrived,        \* the audio chunks passed to queueAudio, in arrival order
    msgs,           \* handleMessage activations that carry tool calls
    events,         \* callback invocations and sendToolResponse calls, in order
    nextId,         \* next invocation id the remote side will use
    raised,         \* since the last connect() started, a call made by disconnect()
                    \* threw or returned a rejected promise
    discSinceStart, \* disconnect() calls since the last connect() started (capped at 2)
    discSinceDone,  \* disconnect() calls since the last connect() resolved (capped at 2)
    captures,       \* onaudioprocess callbacks fired so far
    media,          \* the sendRealtimeInput calls made, in order
    util,           \* the audio utility under evaluation: none/base64/downsample/pcm16
    stage,          \* how many of its functions have been applied
    bytes,          \* base64: the input buffer, a sequence of bytes
    base64,         \* base64: the encoded text, a sequence of characters
    decoded,        \* base64: the result of decoding the text
    block,          \* downsample: the length of the input block
    sampleRate,     \* downsample: the source rate in Hz
    resampled,      \* downsample: the output block and the input indices read for it
    sample,         \* pcm16: the input sample, in units of 2^-GridBits
    pcm,            \* pcm16: the encoded 16-bit value
    restored,       \* pcm16: the decoded sample
    env,            \* the page: process.env.API_KEY set, window.aistudio present
    keyCheck,       \* the key check started at mount: pending / done
    appState,       \* App: the AppState value
    micMuted,       \* App: the micMuted state
    error,          \* App: the error message, "null" when none
    requiresKeySelection, \* App: the requiresKeySelection state
    geminiServiceRef,     \* App: the held service (index into services), 0 for null
    services,       \* the GeminiLiveService instances created by App, in creation order
    verifying,      \* handleVerifyDetails calls waiting for their timer
    handled,        \* the last state update made by a tool handler, and their count
    toggling        \* the togglePlayback call awaiting setOutputPaused, if any

vars == <<pc, session, inCtx, outCtx, graph, mediaStream,
          micEnabled, nextStartTime, now, ctxOps, scheduled, dropped, arrived,
          msgs, events, nextId, raised, discSinceStart, discSinceDone,
          captures, media,
          util, stage, bytes, base64, decoded, block, sampleRate, resampled,
          sample, pcm, restored,
          env, keyCheck, appState, micMuted, error, requiresKeySelection,
          geminiServiceRef, services, verifying, handled, toggling>>

lifeVars == <<pc, session, inCtx, outCtx, graph, mediaStream,
              raised, discSinceStart, discSinceDone>>
toolVars == <<msgs, events, nextId>>
playVars == <<nextStartTime, scheduled, dropped>>
capVars == <<captures, media>>
b64Vars == <<bytes, base64, decoded>>
dsVars == <<block, sampleRate, resampled>>
pcmVars == <<sample, pcm, restored>>
pureVars == <<util, stage, b64Vars, dsVars, pcmVars>>
appVars == <<env, keyCheck, appState, micMuted, error, requiresKeySelection,
             geminiServiceRef, services, verifying, handled, toggling>>

Max(a, b) == IF a < b THEN b ELSE a
Cap2(n) == IF n < 2 THEN n + 1 ELSE 2

\* ------------------------------------------------------------ tool calls
ToolNames == {"saveAadhar", "savePan", "verifyDetails", "createDigilocker"}
AllNames == ToolNames \cup {"unknownTool"}

\* How the application callback of an invocation will behave.
\* Synchronous callbacks return or throw; onVerifyDetails throws
\* synchronously, or returns a promise that later resolves to a status or
\* rejects.  An unrecognized name has no callback.
Outcomes(name) ==
    IF name = "verifyDetails" THEN {"MATCH", "MISMATCH", "reject", "throw"}
    ELSE IF name \in ToolNames THEN {"ok", "throw"}
    ELSE {"none"}

Failed(c) == c.out \in {"throw", "reject"}
\* variant: the promise returned by onVerifyDetails is not awaited
Suspends_Never(c) == FALSE
\* the await of onVerifyDetails (line 219) suspends on the returned promise
Suspends(c) == c.name = "verifyDetails" /\ c.out # "throw"

\* an invocation as the remote side can issue it, with its callback's behaviour
Variants == UNION {[name : {nm}, out : Outcomes(nm)] : nm \in AllNames}

\* the functionCalls arrays of n invocations with the fresh ids id, id+1, ...
CallsFrom(id, n) ==
    {[i \in 1..n |-> [id |-> id + i - 1, name |-> f[i].name, out |-> f[i].out]] :
        f \in [1..n -> Variants]}

\* variant: the catch clause leaves the initial result in place
ResponseResult_DefaultKept(c) ==
    IF c.name \notin ToolNames \/ Failed(c) THEN "ok"
    ELSE IF c.name = "saveAadhar" THEN "Aadhar Saved"
    ELSE IF c.name = "savePan" THEN "PAN Saved"
    ELSE IF c.name = "verifyDetails" THEN c.out
    ELSE "Account Created"

\* responseResult of one invocation (lines 209-228)
ResponseResult(c) ==
    IF c.name \notin ToolNames THEN "ok"
    ELSE IF Failed(c) THEN "error"
    ELSE IF c.name = "saveAadhar" THEN "Aadhar Saved"
    ELSE IF c.name = "savePan" THEN "PAN Saved"
    ELSE IF c.name = "verifyDetails" THEN c.out
    ELSE "Account Created"

CbEvent(m, c) ==
    [kind |-> "cb", msg |-> m, id |-> c.id, name |-> c.name, resp |-> "-", live |-> FALSE]

\* variant: an exception of the callback escapes past the send
SendToolResponse_NoCatch(m, c, sess) ==
    IF sess = "null" \/ Failed(c) THEN <<>>
    ELSE <<[kind |-> "resp", msg |-> m, id |-> c.id, name |-> c.name,
            resp |-> ResponseResult(c), live |-> (sess = "open")]>>

\* this.session?.sendToolResponse(...) (lines 231-239)
SendToolResponse(m, c, sess) ==
    IF sess = "null" THEN <<>>
    ELSE <<[kind |-> "resp", msg |-> m, id |-> c.id, name |-> c.name,
            resp |-> ResponseResult(c), live |-> (sess = "open")]>>

\* the callback invocation of the dispatch chain (lines 212-224)
Dispatch(m, c) == IF c.name \in ToolNames THEN <<CbEvent(m, c)>> ELSE <<>>

\* variant: the try/catch encloses the whole loop, so a throwing callback is
\* answered with the error result and the remaining invocations are skipped
RECURSIVE RunCalls_CatchOutsideLoop(_, _, _, _, _)
RunCalls_CatchOutsideLoop(m, calls, idx, sess, ev) ==
    IF idx > Len(calls) THEN [idx |-> idx, waiting |-> FALSE, ev |-> ev]
    ELSE LET c == calls[idx] IN
         IF Suspends(c)
         THEN [idx |-> idx, waiting |-> TRUE, ev |-> ev \o Dispatch(m, c)]
         ELSE IF Failed(c)
         THEN [idx |-> Len(calls) + 1, waiting |-> FALSE,
               ev |-> ev \o Dispatch(m, c) \o SendToolResponse(m, c, sess)]
         ELSE RunCalls_CatchOutsideLoop(m, calls, idx + 1, sess,
                       ev \o Dispatch(m, c) \o SendToolResponse(m, c, sess))

\* The for loop of handleMessage from invocation idx on, up to the next
\* await that suspends (a pending onVerifyDetails) or to the end of the array.
RECURSIVE RunCalls(_, _, _, _, _)
RunCalls(m, calls, idx, sess, ev) ==
    IF idx > Len(calls) THEN [idx |-> idx, waiting |-> FALSE, ev |-> ev]
    ELSE LET c == calls[idx] IN
         IF Suspends(c)
         THEN [idx |-> idx, waiting |-> TRUE, ev |-> ev \o Dispatch(m, c)]
         ELSE RunCalls(m, calls, idx + 1, sess,
                       ev \o Dispatch(m, c) \o SendToolResponse(m, c, sess))

\* ------------------------------------------------------------- playback
\* base64ToArrayBuffer throws on undecodable text, new Int16Array throws on
\* an odd byte length, createBuffer throws on a zero-length buffer.
WellFormed(ch) == ch.decodable /\ ch.bytes % 2 = 0 /\ ch.bytes \div 2 > 0
Duration(ch) == ch.bytes \div 2

\* an inbound chunk: whether its transport text decodes, and to how many bytes
Chunks == {[decodable |-> FALSE, bytes |-> 0]} \cup [decodable : {TRUE}, bytes : 0..MaxBytes]

\* variant: the chunk is started at the cursor even when the clock has passed it
StartTime_NoSnap(cursor, currentTime) == cursor

\* variant: the chunk is always started at the clock's current time
StartTime_AlwaysNow(cursor, currentTime) == currentTime

\* lines 310-313
StartTime(cursor, currentTime) == IF cursor < currentTime THEN currentTime ELSE cursor

\* variant: the cursor is snapped to the clock before the chunk is decoded
Schedule_SnapBeforeDecode(id, ch) ==
    LET start == IF nextStartTime < now THEN now ELSE nextStartTime IN
    IF ch.decodable /\ ch.bytes % 2 = 0 /\ ch.bytes \div 2 > 0
    THEN /\ scheduled' = Append(scheduled, [id |-> id, start |-> start, dur |-> ch.bytes \div 2])
         /\ nextStartTime' = start + (ch.bytes \div 2)
         /\ dropped' = dropped
    ELSE /\ dropped' = dropped \cup {id}
         /\ nextStartTime' = start
         /\ UNCHANGED scheduled

\* the try block of queueAudio (lines 298-319) for chunk number id
Schedule(id, ch) ==
    IF WellFormed(ch)
    THEN LET start == StartTime(nextStartTime, now) IN
         /\ scheduled' = Append(scheduled, [id |-> id, start |-> start, dur |-> Duration(ch)])
         /\ nextStartTime' = start + Duration(ch)
         /\ dropped' = dropped
    ELSE /\ dropped' = dropped \cup {id}
         /\ UNCHANGED <<scheduled, nextStartTime>>

\* queueAudio up to its first suspension (lines 287-320)
QueueAudio(ch) ==
    /\ arrived' = Append(arrived, ch)
    /\ IF outCtx = "null"
       THEN UNCHANGED <<ctxOps, playVars>>
       ELSE IF outCtx = "suspended"
       THEN /\ ctxOps' = Append(ctxOps, [kind |-> "resume", stale |-> FALSE,
                                          chunk |-> Len(arrived) + 1, ch |-> ch])
            /\ UNCHANGED playVars
       ELSE /\ Schedule(Len(arrived) + 1, ch)
            /\ UNCHANGED ctxOps

NoChunk == [decodable |-> FALSE, bytes |-> 0]

\* ------------------------------------------------------------------ Init
NoResult == [same |-> FALSE, length |-> 0, reads |-> <<>>]
Zero == [neg |-> FALSE, m |-> <<>>, e |-> 0]

\* no audio utility is under evaluation
UtilIdle ==
    /\ util = "none" /\ stage = 0
    /\ bytes = <<>> /\ base64 = <<>> /\ decoded = [ok |-> FALSE, bytes |-> <<>>]
    /\ block = 0 /\ sampleRate = 0 /\ resampled = NoResult
    /\ sample = 0 /\ pcm = 0 /\ restored = Zero

\* the service after construction (lines 111-135)
ServiceInit ==
    /\ pc = "idle"
    /\ session = "null" /\ inCtx = "null" /\ outCtx = "null"
    /\ graph = "null" /\ mediaStream = "null" /\ micEnabled = TRUE
    /\ nextStartTime = 0 /\ now = 0
    /\ ctxOps = <<>> /\ scheduled = <<>> /\ dropped = {} /\ arrived = <<>>
    /\ msgs = <<>> /\ events = <<>> /\ nextId = 1
    /\ raised = FALSE /\ discSinceStart = 0 /\ discSinceDone = 0
    /\ captures = 0 /\ media = <<>>

\* App after its first render (src/App.tsx lines 30-49): nothing saved, not
\* connected, no service
Idle ==
    [phase |-> "IDLE", aadhar |-> "null", pan |-> "null", verification |-> "PENDING",
     digilocker |-> [isCreated |-> FALSE, pin |-> "null"],
     isConnected |-> FALSE, isAudioPlaying |-> TRUE]
NoCall == [n |-> 0, name |-> "none", arg |-> "null"]
NoToggle == [svc |-> 0, play |-> FALSE]
AppMounted ==
    /\ appState = Idle
    /\ micMuted = FALSE /\ error = "null" /\ requiresKeySelection = FALSE
    /\ geminiServiceRef = 0 /\ services = <<>>
    /\ verifying = 0 /\ handled = NoCall /\ toggling = NoToggle
    /\ keyCheck = IF env.aistudio THEN "pending" ELSE "done"

\* a bridge instance on its own: the page has a key and no key selector
Init == ServiceInit /\ UtilIdle /\ env = [apiKey |-> TRUE, aistudio |-> FALSE] /\ AppMounted

\* ------------------------------------------------------------- lifecycle
\* variant: the microphone is set up while the handshake is still pending
ConnectStart_MicFirst ==
    /\ pc \in {"idle", "done", "failed"}
    /\ session # "open"
    /\ inCtx' = "running" /\ outCtx' = "running"
    /\ ctxOps' = [k \in 1..Len(ctxOps) |-> [ctxOps[k] EXCEPT !.stale = TRUE]]
    /\ now' = 0
    /\ scheduled' = <<>>
    /\ nextStartTime' = 0
    /\ pc' = "mic"
    /\ raised' = FALSE
    /\ discSinceStart' = 0 /\ discSinceDone' = 0
    /\ UNCHANGED <<session, graph, mediaStream, micEnabled, dropped, arrived, toolVars>>
    /\ UNCHANGED capVars
    /\ UNCHANGED pureVars
    /\ UNCHANGED appVars

\* connect() up to the await of client.live.connect (lines 137-161):
\* two fresh contexts, analysers, cursor reset to the new clock's time.
\* The instance is connected again only while no connect() is in flight and
\* no earlier remote stream is still open, so that this.session is the only
\* stream that delivers messages.
ConnectStart ==
    /\ pc \in {"idle", "done", "failed"}
    /\ session # "open"
    /\ inCtx' = "running" /\ outCtx' = "running"
    /\ ctxOps' = [k \in 1..Len(ctxOps) |-> [ctxOps[k] EXCEPT !.stale = TRUE]]
    /\ now' = 0
    /\ scheduled' = <<>>
    /\ nextStartTime' = 0
    /\ pc' = "handshake"
    /\ raised' = FALSE
    /\ discSinceStart' = 0 /\ discSinceDone' = 0
    /\ UNCHANGED <<session, graph, mediaStream, micEnabled, dropped, arrived, toolVars>>
    /\ UNCHANGED capVars
    /\ UNCHANGED pureVars
    /\ UNCHANGED appVars

\* the handshake resolves: this.session is assigned and setupMicrophone()
\* runs up to the await of getUserMedia (lines 161, 192, 245-248)
HandshakeOk ==
    /\ pc = "handshake"
    /\ session' = "open"
    /\ pc' = IF inCtx = "null" THEN "done" ELSE "mic"
    /\ UNCHANGED <<inCtx, outCtx, graph, mediaStream, micEnabled,
                   nextStartTime, now, ctxOps, scheduled, dropped, arrived,
                   toolVars, raised, discSinceStart, discSinceDone>>
    /\ UNCHANGED capVars
    /\ UNCHANGED pureVars
    /\ UNCHANGED appVars

\* the handshake rejects: logged and rethrown (lines 186-189)
HandshakeFail ==
    /\ pc = "handshake"
    /\ pc' = "failed"
    /\ UNCHANGED <<session, inCtx, outCtx, graph, mediaStream,
                   micEnabled, nextStartTime, now, ctxOps, scheduled, dropped,
                   arrived, toolVars, raised, discSinceStart, discSinceDone>>
    /\ UNCHANGED capVars
    /\ UNCHANGED pureVars
    /\ UNCHANGED appVars

\* getUserMedia resolves: capture graph built, connect() resolves (lines 248-280, 194)
MicOk ==
    /\ pc = "mic"
    /\ mediaStream' = "live"
    /\ micEnabled' = TRUE
    /\ graph' = "connected"
    /\ pc' = "done"
    /\ discSinceDone' = 0
    /\ UNCHANGED <<session, inCtx, outCtx, nextStartTime, now,
                   ctxOps, scheduled, dropped, arrived, toolVars, raised,
                   discSinceStart>>
    /\ UNCHANGED capVars
    /\ UNCHANGED pureVars
    /\ UNCHANGED appVars

\* getUserMedia rejects: logged and rethrown (lines 281-284)
MicFail ==
    /\ pc = "mic"
    /\ pc' = "failed"
    /\ UNCHANGED <<session, inCtx, outCtx, graph, mediaStream,
                   micEnabled, nextStartTime, now, ctxOps, scheduled, dropped,
                   arrived, toolVars, raised, discSinceStart, discSinceDone>>
    /\ UNCHANGED capVars
    /\ UNCHANGED pureVars
    /\ UNCHANGED appVars

\* AudioContext.close(): the returned promise rejects on a closed context
CloseRejects(ctx) == ctx = "closed"
Closed(ctx) == IF ctx = "null" THEN "null" ELSE "closed"

\* disconnect() (lines 339-349); no field is reset to null
Disconnect ==
    /\ session' = IF session = "null" THEN "null" ELSE "closed"
    /\ graph' = IF graph = "null" THEN "null" ELSE "disconnected"
    /\ inCtx' = Closed(inCtx)
    /\ outCtx' = Closed(outCtx)
    /\ raised' = (raised \/ CloseRejects(inCtx) \/ CloseRejects(outCtx))
    /\ mediaStream' = IF mediaStream = "null" THEN "null" ELSE "stopped"
    /\ discSinceStart' = Cap2(discSinceStart)
    /\ discSinceDone' = Cap2(discSinceDone)
    /\ UNCHANGED <<pc, micEnabled, nextStartTime, now, ctxOps,
                   scheduled, dropped, arrived, toolVars>>
    /\ UNCHANGED capVars
    /\ UNCHANGED pureVars
    /\ UNCHANGED appVars

\* --------------------------------------------------------------- control
\* variant: muting stops the microphone tracks instead of disabling them
SetMicMuted_StopsTracks(muted) ==
    /\ micEnabled' = IF mediaStream = "null" THEN micEnabled ELSE ~muted
    /\ mediaStream' = IF muted /\ mediaStream = "live" THEN "stopped" ELSE mediaStream
    /\ UNCHANGED <<pc, session, inCtx, outCtx, graph, raised, discSinceStart,
                   discSinceDone, nextStartTime, now, ctxOps, scheduled, dropped,
                   arrived, toolVars>>
    /\ UNCHANGED capVars
    /\ UNCHANGED pureVars
    /\ UNCHANGED appVars

\* setMicMuted (lines 322-328)
SetMicMuted(muted) ==
    /\ micEnabled' = IF mediaStream = "null" THEN micEnabled ELSE ~muted
    /\ UNCHANGED <<lifeVars, nextStartTime, now, ctxOps, scheduled, dropped,
                   arrived, toolVars>>
    /\ UNCHANGED capVars
    /\ UNCHANGED pureVars
    /\ UNCHANGED appVars

\* variant: resuming restarts the cursor at the clock's current time
SetOutputPaused_ResetsCursor(paused) ==
    /\ Len(ctxOps) < MaxOps
    /\ ctxOps' = IF outCtx \in {"null", "closed"} THEN ctxOps
                 ELSE Append(ctxOps, [kind |-> IF paused THEN "suspend" ELSE "resume",
                                      stale |-> FALSE, chunk |-> 0, ch |-> NoChunk])
    /\ nextStartTime' = IF paused \/ outCtx \in {"null", "closed"}
                        THEN nextStartTime ELSE now
    /\ UNCHANGED <<lifeVars, micEnabled, now, scheduled, dropped,
                   arrived, toolVars>>
    /\ UNCHANGED capVars
    /\ UNCHANGED pureVars
    /\ UNCHANGED appVars

\* setOutputPaused (lines 330-337): the suspend/resume request is queued on
\* the context and takes effect when the platform processes it
SetOutputPaused(paused) ==
    /\ Len(ctxOps) < MaxOps
    /\ ctxOps' = IF outCtx \in {"null", "closed"} THEN ctxOps
                 ELSE Append(ctxOps, [kind |-> IF paused THEN "suspend" ELSE "resume",
                                      stale |-> FALSE, chunk |-> 0, ch |-> NoChunk])
    /\ UNCHANGED <<lifeVars, micEnabled, nextStartTime, now, scheduled, dropped,
                   arrived, toolVars>>
    /\ UNCHANGED capVars
    /\ UNCHANGED pureVars
    /\ UNCHANGED appVars

\* The platform processes the oldest pending control operation: the state of
\* the context it was issued on changes, its promise settles and, for a
\* resume awaited by queueAudio (lines 290-296), queueAudio continues.
CtxStep ==
    /\ ctxOps # <<>>
    /\ LET op == Head(ctxOps) IN
       /\ outCtx' = IF ~op.stale /\ outCtx \in {"running", "suspended"}
                    THEN (IF op.kind = "resume" THEN "running" ELSE "suspended")
                    ELSE outCtx
       /\ IF op.chunk # 0 THEN Schedule(op.chunk, op.ch) ELSE UNCHANGED playVars
    /\ ctxOps' = Tail(ctxOps)
    /\ UNCHANGED <<pc, session, inCtx, graph, mediaStream,
                   micEnabled, now, arrived, toolVars, raised, discSinceStart,
                   discSinceDone>>
    /\ UNCHANGED capVars
    /\ UNCHANGED pureVars
    /\ UNCHANGED appVars

\* the output clock advances while its context is running
Tick ==
    /\ outCtx = "running"
    /\ now < MaxTime
    /\ now' = now + 1
    /\ UNCHANGED <<lifeVars, micEnabled, nextStartTime, ctxOps, scheduled,
                   dropped, arrived, toolVars>>
    /\ UNCHANGED capVars
    /\ UNCHANGED pureVars
    /\ UNCHANGED appVars

\* ------------------------------------------------------ inbound messages
\* onmessage -> handleMessage (lines 175-177, 197-242), not awaited: the
\* audio part, then the tool calls up to the first suspension.
OnMessage(hasAudio, ch, calls) ==
    /\ session = "open"
    /\ IF hasAudio THEN QueueAudio(ch) ELSE UNCHANGED <<arrived, ctxOps, playVars>>
    /\ IF calls = <<>>
       THEN UNCHANGED toolVars
       ELSE LET m == Len(msgs) + 1
                r == RunCalls(m, calls, 1, session, events)
            IN /\ msgs' = Append(msgs, [calls |-> calls, idx |-> r.idx, waiting |-> r.waiting])
               /\ events' = r.ev
               /\ nextId' = nextId + Len(calls)
    /\ UNCHANGED <<lifeVars, micEnabled, now>>
    /\ UNCHANGED capVars
    /\ UNCHANGED pureVars
    /\ UNCHANGED appVars

AudioMessage(from) ==
    /\ Len(arrived) < MaxChunks
    /\ \E ch \in from : OnMessage(TRUE, ch, <<>>)

ToolMessage ==
    /\ Len(msgs) < MaxToolMsgs
    /\ \E n \in 1..MaxCalls :
          /\ nextId + n - 1 <= MaxInvocations
          /\ \E calls \in CallsFrom(nextId, n) : OnMessage(FALSE, NoChunk, calls)

\* the promise returned by onVerifyDetails settles: handleMessage of
\* activation m continues after its await (lines 219-220, 225-241)
VerifySettles(m) ==
    /\ msgs[m].waiting
    /\ LET a == msgs[m]
           c == a.calls[a.idx]
           r == RunCalls(m, a.calls, a.idx + 1, session,
                         events \o SendToolResponse(m, c, session))
       IN /\ msgs' = [msgs EXCEPT ![m] = [calls |-> a.calls, idx |-> r.idx,
                                          waiting |-> r.waiting]]
          /\ events' = r.ev
    /\ UNCHANGED <<lifeVars, micEnabled, nextStartTime, now, ctxOps, scheduled,
                   dropped, arrived, nextId>>
    /\ UNCHANGED capVars
    /\ UNCHANGED pureVars
    /\ UNCHANGED appVars

\* ------------------------------------------------------ capture pipeline
MimeType == "audio/pcm;rate=16000"

\* the realtime input of one capture block: the block's number, the tag, and
\* whether the block carries microphone content (a disabled or stopped track
\* delivers silence)
MediaMessage(n) ==
    [n |-> n, mimeType |-> MimeType,
     content |-> (micEnabled /\ mediaStream = "live"),
     live |-> (session = "open")]

\* variant: a silent block is not sent
OnAudioProcess_SkipsSilence ==
    /\ graph = "connected" /\ inCtx = "running"
    /\ captures < MaxCaptures
    /\ captures' = captures + 1
    /\ media' = IF session = "null" \/ ~micEnabled THEN media
                ELSE Append(media, MediaMessage(captures + 1))
    /\ UNCHANGED <<lifeVars, micEnabled, nextStartTime, now, ctxOps, scheduled,
                   dropped, arrived, toolVars>>
    /\ UNCHANGED pureVars
    /\ UNCHANGED appVars

\* processor.onaudioprocess (lines 261-280): the script processor delivers a
\* block while it is connected in a running input context; the block is
\* resampled, encoded and passed to this.session?.sendRealtimeInput
OnAudioProcess ==
    /\ graph = "connected" /\ inCtx = "running"
    /\ captures < MaxCaptures
    /\ captures' = captures + 1
    /\ media' = IF session = "null" THEN media
                ELSE Append(media, MediaMessage(captures + 1))
    /\ UNCHANGED <<lifeVars, micEnabled, nextStartTime, now, ctxOps, scheduled,
                   dropped, arrived, toolVars>>
    /\ UNCHANGED pureVars
    /\ UNCHANGED appVars

\* the first connect() on the instance
FirstConnect == pc = "idle" /\ ConnectStart

\* one connection's lifecycle, the control surface and inbound audio
Next ==
    \/ FirstConnect
    \/ HandshakeOk
    \/ HandshakeFail
    \/ MicOk
    \/ MicFail
    \/ Disconnect
    \/ \E muted \in BOOLEAN : SetMicMuted(muted)
    \/ \E paused \in BOOLEAN : SetOutputPaused(paused)
    \/ CtxStep
    \/ Tick
    \/ AudioMessage(Chunks)

Spec == Init /\ [][Next]_vars

\* an undecodable chunk, a chunk of one sample and a chunk of two samples
CursorChunks == {ch \in Chunks : ~ch.decodable \/ ch.bytes \in {2, 4}}

\* the same with connect() called again on the instance after a disconnect
\* or a failed connect
ReconnectNext ==
    \/ ConnectStart
    \/ HandshakeOk
    \/ HandshakeFail
    \/ MicOk
    \/ MicFail
    \/ Disconnect
    \/ \E muted \in BOOLEAN : SetMicMuted(muted)
    \/ \E paused \in BOOLEAN : SetOutputPaused(paused)
    \/ CtxStep
    \/ Tick
    \/ AudioMessage(CursorChunks)

ReconnectSpec == Init /\ [][ReconnectNext]_vars

\* one connection's lifecycle and inbound tool calls
ToolNext ==
    \/ FirstConnect
    \/ HandshakeOk
    \/ HandshakeFail
    \/ MicOk
    \/ MicFail
    \/ Disconnect
    \/ ToolMessage
    \/ \E m \in 1..Len(msgs) : VerifySettles(m)

ToolSpec == Init /\ [][ToolNext]_vars

\* inbound messages that interleave with capture: one invocation each, a
\* verification that stays pending until it resolves, or a synchronous save
CaptureCalls(id) ==
    {<<[id |-> id, name |-> v.name, out |-> v.out]>> :
        v \in {w \in Variants : w.name \in {"verifyDetails", "saveAadhar"} /\ ~Failed(w)}}

CaptureToolMessage ==
    /\ Len(msgs) < MaxToolMsgs
    /\ nextId <= MaxInvocations
    /\ \E calls \in CaptureCalls(nextId) : OnMessage(FALSE, NoChunk, calls)

\* one connection's lifecycle, the microphone control, capture callbacks and
\* inbound tool calls
CaptureNext ==
    \/ FirstConnect
    \/ HandshakeOk
    \/ HandshakeFail
    \/ MicOk
    \/ MicFail
    \/ Disconnect
    \/ \E muted \in BOOLEAN : SetMicMuted(muted)
    \/ OnAudioProcess
    \/ CaptureToolMessage
    \/ \E m \in 1..Len(msgs) : VerifySettles(m)

CaptureSpec == Init /\ [][CaptureNext]_vars

\* ------------------------------------------------- number arithmetic
\* JavaScript numbers are IEEE 754 doubles.  A double of the value ranges
\* that occur here is sign, 53-bit significand and exponent; the operators
\* below compute on exact naturals of any size (little-endian sequences of
\* 15-bit limbs) and round as the platform does (to nearest, ties to even).
Limb == 2^15
DoubleBits == 53
SingleBits == 24

Min(a, b) == IF a < b THEN a ELSE b

RECURSIVE BigOf(_)
BigOf(n) == IF n = 0 THEN <<>> ELSE <<n % Limb>> \o BigOf(n \div Limb)

RECURSIVE Trim(_)
Trim(a) == IF a # <<>> /\ a[Len(a)] = 0 THEN Trim(SubSeq(a, 1, Len(a) - 1)) ELSE a

Digit(a, i) == IF i <= Len(a) THEN a[i] ELSE 0

RECURSIVE BigCmpFrom(_, _, _)
BigCmpFrom(a, b, i) ==
    IF i = 0 THEN 0
    ELSE IF Digit(a, i) < Digit(b, i) THEN -1
    ELSE IF Digit(a, i) > Digit(b, i) THEN 1
    ELSE BigCmpFrom(a, b, i - 1)
\* -1, 0 or 1 as a < b, a = b or a > b
BigCmp(a, b) == BigCmpFrom(a, b, Max(Len(a), Len(b)))

RECURSIVE AddFrom(_, _, _, _)
AddFrom(a, b, i, carry) ==
    IF i > Max(Len(a), Len(b)) THEN BigOf(carry)
    ELSE LET t == Digit(a, i) + Digit(b, i) + carry
         IN <<t % Limb>> \o AddFrom(a, b, i + 1, t \div Limb)
BigAdd(a, b) == AddFrom(a, b, 1, 0)

RECURSIVE SubFrom(_, _, _, _)
SubFrom(a, b, i, borrow) ==
    IF i > Len(a) THEN <<>>
    ELSE LET d == Digit(a, i) - Digit(b, i) - borrow
         IN <<IF d < 0 THEN d + Limb ELSE d>> \o SubFrom(a, b, i + 1, IF d < 0 THEN 1 ELSE 0)
\* a - b for a >= b
BigSub(a, b) == Trim(SubFrom(a, b, 1, 0))

RECURSIVE MulFrom(_, _, _, _)
MulFrom(a, k, i, carry) ==
    IF i > Len(a) THEN BigOf(carry)
    ELSE LET t == a[i] * k + carry
         IN <<t % Limb>> \o MulFrom(a, k, i + 1, t \div Limb)
\* a * k for 0 <= k < Limb
BigMulSmall(a, k) == Trim(MulFrom(a, k, 1, 0))

RECURSIVE BigMul(_, _)
BigMul(a, b) ==
    IF a = <<>> \/ b = <<>> THEN <<>>
    ELSE Trim(BigAdd(BigMulSmall(a, b[1]), <<0>> \o BigMul(a, Tail(b))))

\* a * 2^k
BigShl(a, k) ==
    IF a = <<>> THEN <<>>
    ELSE [i \in 1..(k \div 15) |-> 0] \o BigMulSmall(a, 2^(k % 15))

RECURSIVE SmallBits(_)
SmallBits(n) == IF n = 0 THEN 0 ELSE 1 + SmallBits(n \div 2)
\* number of significant bits
BitLen(a) == IF a = <<>> THEN 0 ELSE 15 * (Len(a) - 1) + SmallBits(a[Len(a)])
\* bit i of a, bit 0 the least significant
BigBit(a, i) == (Digit(a, (i \div 15) + 1) \div 2^(i % 15)) % 2

RECURSIVE QuotDigit(_, _, _, _)
\* the largest d below Limb with b * d <= r, found bit by bit from bit k down
QuotDigit(r, b, k, d) ==
    IF k < 0 THEN d
    ELSE IF BigCmp(BigMulSmall(b, d + 2^k), r) <= 0
         THEN QuotDigit(r, b, k - 1, d + 2^k)
         ELSE QuotDigit(r, b, k - 1, d)

RECURSIVE DivStep(_, _, _, _, _)
\* long division, one limb of a per step from the most significant down:
\* the running remainder takes the next limb, the quotient its next digit
DivDigit(a, b, i, q, r2, d) ==
    IF d = 0 THEN DivStep(a, b, i - 1, <<0>> \o q, r2)
    ELSE DivStep(a, b, i - 1, <<d>> \o q, BigSub(r2, BigMulSmall(b, d)))
DivLimb(a, b, i, q, r2) == DivDigit(a, b, i, q, r2, QuotDigit(r2, b, 14, 0))
DivStep(a, b, i, q, r) ==
    IF i = 0 THEN <<Trim(q), r>>
    ELSE DivLimb(a, b, i, q, Trim(<<a[i]>> \o r))
\* <<quotient, remainder>> of a by b, b > 0
BigDivMod(a, b) == DivStep(a, b, Len(a), <<>>, <<>>)

\* floor(a / 2^k)
BigShr(a, k) == BigDivMod(a, BigShl(<<1>>, k))[1]

RECURSIVE BigToInt(_)
BigToInt(a) == IF a = <<>> THEN 0 ELSE a[1] + Limb * BigToInt(Tail(a))

\* A non-negative number is m * 2^e.  RoundTo(p, a, b, e) is a / b * 2^e
\* rounded to p significant bits, to nearest with ties to even: the
\* quotient is taken with at least two extra bits, the bits below the
\* p-th are dropped and the kept part is incremented when they, with the
\* remainder, exceed half a unit or equal it with the kept part odd.
Normal(p, m, e) ==
    IF BitLen(m) > p THEN [m |-> BigShr(m, 1), e |-> e + 1] ELSE [m |-> m, e |-> e]
RoundUp(kept, half, exact) ==
    IF half > 0 \/ (half = 0 /\ (~exact \/ BigBit(kept, 0) = 1))
    THEN BigAdd(kept, <<1>>) ELSE kept
RoundKept(p, q, exact, d, e, kept) ==
    Normal(p, RoundUp(kept, BigCmp(BigSub(q, BigShl(kept, d)), BigShl(<<1>>, d - 1)), exact),
           e + d)
RoundDrop(p, q, exact, d, e) == RoundKept(p, q, exact, d, e, BigShr(q, d))
RoundQuot(p, qr, e) == RoundDrop(p, qr[1], qr[2] = <<>>, BitLen(qr[1]) - p, e)
RoundShift(p, a, b, e, s) ==
    RoundQuot(p, BigDivMod(BigShl(a, Max(s, 0)), BigShl(b, Max(-s, 0))), e - s)
RoundTo(p, a, b, e) ==
    IF a = <<>> THEN [m |-> <<>>, e |-> 0]
    ELSE RoundShift(p, a, b, e, p + 2 + BitLen(b) - BitLen(a))

\* an integer below 2^31 as a number
Num(n) == [m |-> BigOf(n), e |-> 0]
\* x / y and x * y of doubles
FDiv(x, y) == RoundTo(DoubleBits, x.m, y.m, x.e - y.e)
FMul(x, y) == RoundTo(DoubleBits, BigMul(x.m, y.m), <<1>>, x.e + y.e)
\* Math.floor and Math.ceil of a non-negative number
Floor(x) == IF x.e >= 0 THEN BigToInt(BigShl(x.m, x.e)) ELSE BigToInt(BigShr(x.m, -x.e))
CeilOf(x, f) == BigToInt(f) + (IF BigCmp(BigShl(f, -x.e), x.m) = 0 THEN 0 ELSE 1)
Ceil(x) ==
    IF x.e >= 0 THEN BigToInt(BigShl(x.m, x.e)) ELSE CeilOf(x, BigShr(x.m, -x.e))

\* ------------------------------------------------------------- base64
\* the base64 alphabet of btoa and atob
Alphabet ==
    <<"A", "B", "C", "D", "E", "F", "G", "H", "I", "J", "K", "L", "M",
      "N", "O", "P", "Q", "R", "S", "T", "U", "V", "W", "X", "Y", "Z",
      "a", "b", "c", "d", "e", "f", "g", "h", "i", "j", "k", "l", "m",
      "n", "o", "p", "q", "r", "s", "t", "u", "v", "w", "x", "y", "z",
      "0", "1", "2", "3", "4", "5", "6", "7", "8", "9", "+", "/">>
Char(v) == Alphabet[v + 1]
Sextet(ch) == CHOOSE v \in 0..63 : Alphabet[v + 1] = ch

RECURSIVE Btoa(_)
\* btoa of a binary string given by its character codes (all below 256):
\* three codes make four characters, a shorter tail is padded with "="
Btoa(codes) ==
    IF codes = <<>> THEN <<>>
    ELSE IF Len(codes) = 1
    THEN <<Char(codes[1] \div 4), Char((codes[1] % 4) * 16), "=", "=">>
    ELSE IF Len(codes) = 2
    THEN <<Char(codes[1] \div 4),
           Char((codes[1] % 4) * 16 + codes[2] \div 16),
           Char((codes[2] % 16) * 4), "=">>
    ELSE <<Char(codes[1] \div 4),
           Char((codes[1] % 4) * 16 + codes[2] \div 16),
           Char((codes[2] % 16) * 4 + codes[3] \div 64),
           Char(codes[3] % 64)>> \o Btoa(SubSeq(codes, 4, Len(codes)))

\* the text atob decodes: one or two trailing "=" of a text whose length is
\* a multiple of four are removed
Unpadded(text) ==
    IF Len(text) % 4 = 0 /\ Len(text) > 0 /\ text[Len(text)] = "="
    THEN IF text[Len(text) - 1] = "="
         THEN SubSeq(text, 1, Len(text) - 2)
         ELSE SubSeq(text, 1, Len(text) - 1)
    ELSE text

RECURSIVE AtobCodes(_)
\* the character codes of four characters' 24 bits; of a tail of two or
\* three characters the whole bytes, the remaining bits discarded
AtobCodes(text) ==
    IF text = <<>> THEN <<>>
    ELSE LET v(i) == Sextet(text[i]) IN
         IF Len(text) = 2
         THEN <<v(1) * 4 + v(2) \div 16>>
         ELSE IF Len(text) = 3
         THEN <<v(1) * 4 + v(2) \div 16, (v(2) % 16) * 16 + v(3) \div 4>>
         ELSE <<v(1) * 4 + v(2) \div 16, (v(2) % 16) * 16 + v(3) \div 4,
                (v(3) % 4) * 64 + v(4)>> \o AtobCodes(SubSeq(text, 5, Len(text)))

\* atob throws on a character outside the alphabet and on a length that
\* leaves a single character over
AtobThrows(text) ==
    LET t == Unpadded(text)
    IN \/ Len(t) % 4 = 1
       \/ \E i \in 1..Len(t) : \A v \in 0..63 : Alphabet[v + 1] # t[i]

\* String.fromCharCode: the code modulo 2^16
FromCharCode(n) == n % 65536

\* variant: only the low seven bits of each byte are encoded
ArrayBufferToBase64_SevenBit(buffer) ==
    Btoa([i \in 1..Len(buffer) |-> FromCharCode(buffer[i] % 128)])

\* arrayBufferToBase64 (src/utils/audioUtils.ts lines 22-30)
ArrayBufferToBase64(buffer) ==
    Btoa([i \in 1..Len(buffer) |-> FromCharCode(buffer[i])])

\* base64ToArrayBuffer (src/utils/audioUtils.ts lines 33-41); a Uint8Array
\* element holds the code modulo 256
Base64ToArrayBuffer(text) ==
    IF AtobThrows(text) THEN [ok |-> FALSE, bytes |-> <<>>]
    ELSE LET binaryString == AtobCodes(Unpadded(text))
         IN [ok |-> TRUE,
             bytes |-> [i \in 1..Len(binaryString) |-> binaryString[i] % 256]]

\* ------------------------------------------------------------ resampling
TargetRate == 16000

\* const ratio = sampleRate / 16000 (line 46)
Ratio(rate) == FDiv(Num(rate), Num(TargetRate))
\* Math.ceil(buffer.length / ratio) (line 47)
NewLength(len, ratio) == Ceil(FDiv(Num(len), ratio))
\* Math.floor(i * ratio) (lines 51-52)
SampleIndex(i, ratio) == Floor(FMul(Num(i), ratio))
\* Math.min(index + 1, buffer.length - 1) (line 53)
NextIndex(index, len) == Min(index + 1, len - 1)

\* downsampleTo16000 (src/utils/audioUtils.ts lines 44-59) on a block of len
\* samples: whether the input itself is returned, the length of the result
\* and, for each output sample, the two input indices read for it
Reads(index, len) == <<index, NextIndex(index, len)>>
Resample(len, ratio, newLength) ==
    [same |-> FALSE, length |-> newLength,
     reads |-> [i \in 1..newLength |-> Reads(SampleIndex(i - 1, ratio), len)]]
ResampleBy(len, ratio) == Resample(len, ratio, NewLength(len, ratio))
DownsampleTo16000(len, rate) ==
    IF rate = TargetRate THEN [same |-> TRUE, length |-> len, reads |-> <<>>]
    ELSE ResampleBy(len, Ratio(rate))

\* ------------------------------------------------------------- PCM16
\* a sample is sign, magnitude m * 2^e
FromGrid(a, bits) == [neg |-> a < 0, m |-> BigOf(IF a < 0 THEN -a ELSE a), e |-> -bits]
IsNegative(x) == x.neg /\ x.m # <<>>
One == [neg |-> FALSE, m |-> <<1>>, e |-> 0]
\* |x| > |y|
ExceedsAt(x, y, k) == BigCmp(BigShl(x.m, x.e - k), BigShl(y.m, y.e - k)) > 0
Exceeds(x, y) == ExceedsAt(x, y, Min(x.e, y.e))
\* Math.max(-1, Math.min(1, x)) (line 5)
Clamp(x) == IF Exceeds(x, One) THEN [One EXCEPT !.neg = x.neg] ELSE x
\* the conversion of a number stored into an Int16Array element: the
\* fraction is dropped and the integer is taken modulo 2^16 into -2^15..2^15-1
Wrap16(u) == IF u >= 32768 THEN u - 65536 ELSE u
Low16(neg, t) == Wrap16(IF neg THEN (65536 - t) % 65536 ELSE t)
ToInt16(x) == Low16(x.neg, Floor(x) % 65536)
\* the magnitude v with the sign of c
Signed(neg, v) == [neg |-> neg, m |-> v.m, e |-> v.e]

\* variant: every sample is scaled by 0x8000
Scale_One(c) == ToInt16(Signed(c.neg, FMul(c, Num(32768))))

\* one element of float32ToInt16 (src/utils/audioUtils.ts lines 2-9)
Scale(c) == ToInt16(Signed(c.neg, FMul(c, Num(IF IsNegative(c) THEN 32768 ELSE 32767))))
Float32ToInt16(x) == Scale(Clamp(x))

\* one element of int16ToFloat32 (src/utils/audioUtils.ts lines 12-19): the
\* quotient is a double and the Float32Array element holds it rounded to
\* single precision
ToSingle(d) == RoundTo(SingleBits, d.m, <<1>>, d.e)
Int16ToFloat32(q) ==
    Signed(q < 0, ToSingle(IF q < 0 THEN FDiv(Num(-q), Num(32768))
                                    ELSE FDiv(Num(q), Num(32767))))

\* ------------------------------------------------- the audio utilities
\* byte values at the edges of the sextet, sign and byte boundaries
ByteSamples == {0, 1, 63, 64, 127, 128, 254, 255}
Buffers == UNION {[1..n -> ByteSamples] : n \in 0..MaxLen}

\* the block size of the capture processor (geminiLiveService.ts line 255)
BlockSize == 4096
\* source rates: below and at the target rate, and hardware rates above it
SourceRates == {8000, 11025, 16000, 22400, 44100, 48000}
Blocks ==
    ((0..MaxBlock) \X SourceRates) \cup ({BlockSize} \X {16000, 44100, 48000})

\* samples from -1.5 to 1.5 in steps of 2^-GridBits
GridOne == 2^GridBits
Samples == (-(GridOne + GridOne \div 2))..(GridOne + GridOne \div 2)

\* one utility is applied to one input
UtilInit ==
    /\ ServiceInit
    /\ env = [apiKey |-> TRUE, aistudio |-> FALSE] /\ AppMounted
    /\ stage = 0
    /\ base64 = <<>> /\ decoded = [ok |-> FALSE, bytes |-> <<>>]
    /\ resampled = NoResult
    /\ pcm = 0 /\ restored = Zero
    /\ \/ /\ util = "base64"
          /\ bytes \in Buffers
          /\ block = 0 /\ sampleRate = 0 /\ sample = 0
       \/ /\ util = "downsample"
          /\ \E b \in Blocks : block = b[1] /\ sampleRate = b[2]
          /\ bytes = <<>> /\ sample = 0
       \/ /\ util = "pcm16"
          /\ sample \in Samples
          /\ bytes = <<>> /\ block = 0 /\ sampleRate = 0

Encode ==
    /\ util = "base64" /\ stage = 0
    /\ base64' = ArrayBufferToBase64(bytes)
    /\ stage' = 1
    /\ UNCHANGED <<util, bytes, decoded, dsVars, pcmVars>>
    /\ UNCHANGED <<lifeVars, micEnabled, now, ctxOps, arrived, playVars, toolVars, capVars>>
    /\ UNCHANGED appVars

Decode ==
    /\ util = "base64" /\ stage = 1
    /\ decoded' = Base64ToArrayBuffer(base64)
    /\ stage' = 2
    /\ UNCHANGED <<util, bytes, base64, dsVars, pcmVars>>
    /\ UNCHANGED <<lifeVars, micEnabled, now, ctxOps, arrived, playVars, toolVars, capVars>>
    /\ UNCHANGED appVars

Downsample ==
    /\ util = "downsample" /\ stage = 0
    /\ resampled' = DownsampleTo16000(block, sampleRate)
    /\ stage' = 1
    /\ UNCHANGED <<util, block, sampleRate, b64Vars, pcmVars>>
    /\ UNCHANGED <<lifeVars, micEnabled, now, ctxOps, arrived, playVars, toolVars, capVars>>
    /\ UNCHANGED appVars

Quantize ==
    /\ util = "pcm16" /\ stage = 0
    /\ pcm' = Float32ToInt16(FromGrid(sample, GridBits))
    /\ stage' = 1
    /\ UNCHANGED <<util, sample, restored, b64Vars, dsVars>>
    /\ UNCHANGED <<lifeVars, micEnabled, now, ctxOps, arrived, playVars, toolVars, capVars>>
    /\ UNCHANGED appVars

Restore ==
    /\ util = "pcm16" /\ stage = 1
    /\ restored' = Int16ToFloat32(pcm)
    /\ stage' = 2
    /\ UNCHANGED <<util, sample, pcm, b64Vars, dsVars>>
    /\ UNCHANGED <<lifeVars, micEnabled, now, ctxOps, arrived, playVars, toolVars, capVars>>
    /\ UNCHANGED appVars

UtilNext == Encode \/ Decode \/ Downsample \/ Quantize \/ Restore

UtilSpec == UtilInit /\ [][UtilNext]_vars

\* ------------------------------------------------------ the application
\* App (src/App.tsx) creates a GeminiLiveService for every Start
\* Verification and keeps the connected one in geminiServiceRef.  A service
\* is recorded here by what App depends on: the position of its connect(),
\* its session, its microphone stream and tracks, and whether disconnect()
\* was called on it.  Each action is one handler run up to its next await.
Args == {"a", "b"}
Rejections == {"other", "permission"}
bridgeVars == <<lifeVars, micEnabled, now, ctxOps, arrived, playVars, toolVars, capVars>>

\* new GeminiLiveService(...) and connect() up to the await of the
\* handshake (App.tsx lines 126-135, geminiLiveService.ts lines 137-161)
Connecting ==
    [pc |-> "handshake", session |-> "null", mediaStream |-> "null",
     micEnabled |-> TRUE, disconnected |-> FALSE]

\* disconnect() on a service (geminiLiveService.ts lines 339-349)
Disconnected(svc) ==
    [svc EXCEPT !.session = IF @ = "null" THEN "null" ELSE "closed",
                !.mediaStream = IF @ = "null" THEN "null" ELSE "stopped",
                !.disconnected = TRUE]

\* setMicMuted on a service (geminiLiveService.ts lines 322-328)
Muted(svc, muted) ==
    [svc EXCEPT !.micEnabled = IF svc.mediaStream = "null" THEN @ ELSE ~muted]

\* variant: the update spreads the state captured at the first render
HandleSaveAadhar_StaleState(prev, args) == [Idle EXCEPT !.phase = "PAN", !.aadhar = args]

\* the state updates of the four tool handlers (App.tsx lines 71-107)
HandleSaveAadhar(prev, args) == [prev EXCEPT !.phase = "PAN", !.aadhar = args]
HandleSavePan(prev, args) == [prev EXCEPT !.phase = "VERIFY", !.pan = args]
HandleVerifyDetails(prev) == [prev EXCEPT !.phase = "DIGILOCKER", !.verification = "MATCH"]
HandleCreateDigilocker(prev, args) ==
    [prev EXCEPT !.phase = "COMPLETE", !.digilocker = [isCreated |-> TRUE, pin |-> args]]

\* the message shown without a key in the environment (App.tsx line 119)
MissingKey == "Missing API_KEY in environment variables."
\* the message shown for a rejected connect() (App.tsx lines 145-151)
ErrorMessage(kind) ==
    IF kind = "permission" THEN "Permission Denied." ELSE "Failed to connect."

\* the key check of the mount effect resolves (App.tsx lines 52-60)
CheckKey ==
    /\ keyCheck = "pending"
    /\ keyCheck' = "done"
    /\ \E hasKey \in BOOLEAN : requiresKeySelection' = ~hasKey
    /\ UNCHANGED <<env, appState, micMuted, error, geminiServiceRef, services,
                   verifying, handled, toggling>>
    /\ UNCHANGED <<bridgeVars, pureVars>>

\* Select API Key (App.tsx lines 62-68, button at lines 216-223)
HandleSelectKey ==
    /\ ~appState.isConnected /\ requiresKeySelection
    /\ env.aistudio
    /\ requiresKeySelection' = FALSE
    /\ error' = "null"
    /\ UNCHANGED <<env, keyCheck, appState, micMuted, geminiServiceRef, services,
                   verifying, handled, toggling>>
    /\ UNCHANGED <<bridgeVars, pureVars>>

\* variant: the service is stored in geminiServiceRef before connect() is awaited
StartVerification_StoresFirst ==
    /\ ~appState.isConnected /\ ~requiresKeySelection
    /\ IF ~env.apiKey
       THEN /\ error' = MissingKey
            /\ UNCHANGED <<services, geminiServiceRef>>
       ELSE /\ Len(services) < MaxServices
            /\ error' = "null"
            /\ services' = Append(services, Connecting)
            /\ geminiServiceRef' = Len(services) + 1
    /\ UNCHANGED <<env, keyCheck, appState, micMuted, requiresKeySelection,
                   verifying, handled, toggling>>
    /\ UNCHANGED <<bridgeVars, pureVars>>

\* Start Verification up to the await of connect() (App.tsx lines 110-135);
\* the button is shown while not connected and no key selection is required
\* (lines 215-230)
StartVerification ==
    /\ ~appState.isConnected /\ ~requiresKeySelection
    /\ IF ~env.apiKey
       THEN /\ error' = MissingKey
            /\ UNCHANGED services
       ELSE /\ Len(services) < MaxServices
            /\ error' = "null"
            /\ services' = Append(services, Connecting)
    /\ UNCHANGED <<env, keyCheck, appState, micMuted, requiresKeySelection,
                   geminiServiceRef, verifying, handled, toggling>>
    /\ UNCHANGED <<bridgeVars, pureVars>>

\* the handshake of service s resolves: its session is assigned and
\* setupMicrophone waits for getUserMedia (geminiLiveService.ts lines 161, 192, 248)
Handshake(s) ==
    /\ services[s].pc = "handshake"
    /\ services' = [services EXCEPT ![s].pc = "mic", ![s].session = "open"]
    /\ UNCHANGED <<env, keyCheck, appState, micMuted, error, requiresKeySelection,
                   geminiServiceRef, verifying, handled, toggling>>
    /\ UNCHANGED <<bridgeVars, pureVars>>

\* connect() of service s rejects, at the handshake or at getUserMedia, and
\* the catch clause of startVerification runs (App.tsx lines 143-152)
ConnectRejects(s, kind) ==
    /\ services[s].pc \in {"handshake", "mic"}
    /\ services' = [services EXCEPT ![s].pc = "failed"]
    /\ error' = ErrorMessage(kind)
    /\ requiresKeySelection' = (requiresKeySelection \/ (kind = "permission" /\ env.aistudio))
    /\ UNCHANGED <<env, keyCheck, appState, micMuted, geminiServiceRef,
                   verifying, handled, toggling>>
    /\ UNCHANGED <<bridgeVars, pureVars>>

\* getUserMedia of service s resolves, connect() resolves and
\* startVerification continues (geminiLiveService.ts lines 248-280, App.tsx
\* lines 136-142)
ConnectResolves(s) ==
    /\ services[s].pc = "mic"
    /\ services' = [services EXCEPT ![s].pc = "done", ![s].mediaStream = "live",
                                    ![s].micEnabled = TRUE]
    /\ geminiServiceRef' = s
    /\ appState' = [appState EXCEPT !.isConnected = TRUE, !.phase = "AADHAR"]
    /\ UNCHANGED <<env, keyCheck, micMuted, error, requiresKeySelection,
                   verifying, handled, toggling>>
    /\ UNCHANGED <<bridgeVars, pureVars>>

\* End Session (App.tsx lines 172-180, button at lines 232-238)
EndSession ==
    /\ appState.isConnected
    /\ services' = IF geminiServiceRef = 0 THEN services
                   ELSE [services EXCEPT ![geminiServiceRef] = Disconnected(@)]
    /\ appState' = [appState EXCEPT !.isConnected = FALSE, !.phase = "IDLE"]
    /\ geminiServiceRef' = 0
    /\ UNCHANGED <<env, keyCheck, micMuted, error, requiresKeySelection,
                   verifying, handled, toggling>>
    /\ UNCHANGED <<bridgeVars, pureVars>>

\* the microphone button (App.tsx lines 156-162, enabled while connected)
ToggleMic ==
    /\ appState.isConnected
    /\ IF geminiServiceRef = 0 THEN UNCHANGED <<services, micMuted>>
       ELSE /\ services' = [services EXCEPT ![geminiServiceRef] = Muted(@, ~micMuted)]
            /\ micMuted' = ~micMuted
    /\ UNCHANGED <<env, keyCheck, appState, error, requiresKeySelection,
                   geminiServiceRef, verifying, handled, toggling>>
    /\ UNCHANGED <<bridgeVars, pureVars>>

\* the playback button up to the await of setOutputPaused (App.tsx lines
\* 164-167, enabled while connected); one call in flight at a time
TogglePlayback ==
    /\ appState.isConnected
    /\ toggling = NoToggle
    /\ toggling' = IF geminiServiceRef = 0 THEN toggling
                   ELSE [svc |-> geminiServiceRef, play |-> ~appState.isAudioPlaying]
    /\ UNCHANGED <<env, keyCheck, appState, micMuted, error, requiresKeySelection,
                   geminiServiceRef, services, verifying, handled>>
    /\ UNCHANGED <<bridgeVars, pureVars>>

\* the suspend or resume settles and togglePlayback continues (App.tsx line
\* 168); on a context closed by disconnect() it rejects and nothing is set
PlaybackSettles ==
    /\ toggling # NoToggle
    /\ toggling' = NoToggle
    /\ appState' = IF services[toggling.svc].disconnected THEN appState
                   ELSE [appState EXCEPT !.isAudioPlaying = toggling.play]
    /\ UNCHANGED <<env, keyCheck, micMuted, error, requiresKeySelection,
                   geminiServiceRef, services, verifying, handled>>
    /\ UNCHANGED <<bridgeVars, pureVars>>

\* a tool call arrives on the open session of service s and handleMessage
\* calls the handler App registered (geminiLiveService.ts lines 212-224);
\* handleVerifyDetails starts its timer (App.tsx lines 87-89)
ToolCall(s, name, args) ==
    /\ services[s].session = "open"
    /\ handled.n + verifying < MaxToolCalls
    /\ IF name = "verifyDetails"
       THEN /\ verifying' = verifying + 1
            /\ UNCHANGED <<appState, handled>>
       ELSE /\ appState' = IF name = "saveAadhar" THEN HandleSaveAadhar(appState, args)
                           ELSE IF name = "savePan" THEN HandleSavePan(appState, args)
                           ELSE HandleCreateDigilocker(appState, args)
            /\ handled' = [n |-> handled.n + 1, name |-> name, arg |-> args]
            /\ UNCHANGED verifying
    /\ UNCHANGED <<env, keyCheck, micMuted, error, requiresKeySelection,
                   geminiServiceRef, services, toggling>>
    /\ UNCHANGED <<bridgeVars, pureVars>>

\* the timer of a handleVerifyDetails call fires (App.tsx lines 90-98)
VerifyDetailsDone ==
    /\ verifying > 0
    /\ verifying' = verifying - 1
    /\ appState' = HandleVerifyDetails(appState)
    /\ handled' = [n |-> handled.n + 1, name |-> "verifyDetails", arg |-> "null"]
    /\ UNCHANGED <<env, keyCheck, micMuted, error, requiresKeySelection,
                   geminiServiceRef, services, toggling>>
    /\ UNCHANGED <<bridgeVars, pureVars>>

\* the application from page load: key selection, sessions and tool calls
AppNext ==
    \/ CheckKey
    \/ HandleSelectKey
    \/ StartVerification
    \/ \E s \in 1..Len(services) : Handshake(s)
    \/ \E s \in 1..Len(services), kind \in Rejections : ConnectRejects(s, kind)
    \/ \E s \in 1..Len(services) : ConnectResolves(s)
    \/ EndSession
    \/ \E s \in 1..Len(services), name \in ToolNames, args \in Args : ToolCall(s, name, args)
    \/ VerifyDetailsDone

\* the page as it can be loaded: with or without a key in the environment,
\* with or without the key selector
AppInit ==
    /\ ServiceInit /\ UtilIdle
    /\ env \in [apiKey : BOOLEAN, aistudio : BOOLEAN]
    /\ AppMounted

AppSpec == AppInit /\ [][AppNext]_vars

\* sessions and the two audio controls, on a page with a key
ControlNext ==
    \/ StartVerification
    \/ \E s \in 1..Len(services) : Handshake(s)
    \/ \E s \in 1..Len(services), kind \in Rejections : ConnectRejects(s, kind)
    \/ \E s \in 1..Len(services) : ConnectResolves(s)
    \/ EndSession
    \/ ToggleMic
    \/ TogglePlayback
    \/ PlaybackSettles

ControlSpec == Init /\ [][ControlNext]_vars

\* ================================================================ claims
Finished(m) == msgs[m].idx > Len(msgs[m].calls)
RespIdx(id) == {k \in 1..Len(events) : events[k].kind = "resp" /\ events[k].id = id}
RespOf(m) == SelectSeq(events, LAMBDA e : e.kind = "resp" /\ e.msg = m)
EventsOf(m) == {k \in 1..Len(events) : events[k].msg = m}
HeldResources ==
    \/ session = "open"
    \/ inCtx \in {"running", "suspended"}
    \/ outCtx \in {"running", "suspended"}
    \/ mediaStream = "live"
ConnectInFlight == pc \in {"handshake", "mic"}

\* C1: every tool invocation received in an inbound message is answered by
\* exactly one sendToolResponse call carrying its id and name, whatever its
\* name and whether its callback returns, throws or rejects: never two
\* responses for one id, one response as soon as handleMessage has moved past
\* the invocation, and no response that belongs to no invocation.
C1_ExactlyOneResponse ==
    /\ \A m \in 1..Len(msgs) : \A i \in 1..Len(msgs[m].calls) :
          LET c == msgs[m].calls[i] IN
          /\ Cardinality(RespIdx(c.id)) <= 1
          /\ (i < msgs[m].idx => Cardinality(RespIdx(c.id)) = 1)
          /\ \A k \in RespIdx(c.id) : events[k].name = c.name /\ events[k].msg = m
    /\ \A k \in 1..Len(events) : events[k].kind = "resp" =>
          \E m \in 1..Len(msgs) : \E i \in 1..Len(msgs[m].calls) :
             msgs[m].calls[i].id = events[k].id

\* every message has been handled to the end, and between them they held a
\* callback that threw and a verifyDetails promise that rejected
C1_Witness ==
    /\ \A m \in 1..Len(msgs) : Finished(m)
    /\ \E m \in 1..Len(msgs) : \E i \in 1..Len(msgs[m].calls) :
          msgs[m].calls[i].out = "throw"
    /\ \E m \in 1..Len(msgs) : \E i \in 1..Len(msgs[m].calls) :
          msgs[m].calls[i].out = "reject"

\* C2: each inbound message is handled to completion before handling of the
\* next one begins: as soon as a callback or tool response of a message
\* exists, every earlier message has sent all of its tool responses.
C2_MessagesSerialized ==
    \A m1, m2 \in 1..Len(msgs) :
        (m1 < m2 /\ EventsOf(m2) # {}) => Finished(m1)

\* C3: the tool responses of one message are the responses to its
\* invocations in array order, one per invocation handled so far and all N
\* once the message is finished; an invocation whose callback failed gets
\* the error result and the invocations after it are dispatched and answered.
C3_ResponsesInArrayOrder ==
    \A m \in 1..Len(msgs) :
        LET rs == RespOf(m)
            calls == msgs[m].calls
        IN /\ Len(rs) = msgs[m].idx - 1
           /\ Finished(m) => Len(rs) = Len(calls)
           /\ \A i \in 1..Len(rs) :
                 /\ rs[i].id = calls[i].id
                 /\ rs[i].name = calls[i].name
                 /\ (Failed(calls[i]) => rs[i].resp = "error")
           /\ \A i \in 1..Len(calls) :
                 (i < msgs[m].idx /\ calls[i].name \in ToolNames) =>
                    \E k \in EventsOf(m) : events[k].kind = "cb" /\ events[k].id = calls[i].id

\* a finished message whose first callback threw and whose second invocation
\* called a callback and was answered without error
C3_Witness ==
    \E m \in 1..Len(msgs) :
        /\ Finished(m)
        /\ Len(msgs[m].calls) >= 2
        /\ msgs[m].calls[1].out = "throw"
        /\ msgs[m].calls[2].name \in ToolNames
        /\ Len(RespOf(m)) >= 2
        /\ RespOf(m)[2].resp # "error"

\* C4: playback chunks are scheduled in receive order and never overlap: in
\* the schedule every chunk arrived after the ones before it and starts no
\* earlier than the end of each of them.
C4_ReceiveOrderNoOverlap ==
    \A i, j \in 1..Len(scheduled) :
        i < j => /\ scheduled[i].id < scheduled[j].id
                 /\ scheduled[j].start >= scheduled[i].start + scheduled[i].dur

\* C5: a well-formed chunk of duration d scheduled with cursor c at clock
\* time now starts at max(c, now) and leaves the cursor at max(c, now) + d;
\* hence it never starts before the clock's time at scheduling.
C5_ScheduleRule ==
    [][Len(scheduled') = Len(scheduled) + 1 =>
          LET e == scheduled'[Len(scheduled')] IN
          /\ e.start = Max(nextStartTime, now)
          /\ nextStartTime' = Max(nextStartTime, now) + e.dur
          /\ e.start >= now]_vars

\* the first chunk was snapped forward to the clock (underrun) and the second
\* was started at the cursor, which is still ahead of the clock
C5_Witness ==
    /\ Len(scheduled) = 2
    /\ scheduled[1].start > 0
    /\ scheduled[2].start = scheduled[1].start + scheduled[1].dur
    /\ scheduled[2].start > now

\* C6: when connect() has failed, nothing it acquired is still held: the
\* remote stream, both audio contexts and the microphone stream are closed.
C6_NoPartialSession == pc = "failed" => ~HeldResources

\* C7: after disconnect() has been called, in whatever state, and once any
\* in-flight connect() has finished, no call of disconnect() has raised and
\* the stream, the microphone tracks and both contexts are released.
C7_DisconnectAnyState ==
    (discSinceStart > 0 /\ ~ConnectInFlight) => (~raised /\ ~HeldResources)

\* C8: disconnect() on a never-connected bridge, or twice in a row after a
\* successful connect(), raises nothing (no exception, no rejected operation
\* on an already-closed resource) and leaves no held resources.
C8_DisconnectTwice ==
    ((pc = "idle" /\ discSinceStart > 0) \/ (pc = "done" /\ discSinceDone = 2))
        => (~raised /\ ~HeldResources)

\* C9 as stated: the PlaybackCursor never decreases over any sequence of
\* operations on one bridge instance, connect() included.
C9_CursorNeverDecreases == [][nextStartTime' >= nextStartTime]_vars

\* C9 as amended: between two connect() calls the PlaybackCursor never
\* decreases, whatever chunks arrive and whatever setOutputPaused,
\* setMicMuted and disconnect calls are made; only connect() resets it.
C9_CursorMonotoneWithinConnection ==
    [][~(pc # "handshake" /\ pc' = "handshake") => nextStartTime' >= nextStartTime]_vars

\* a chunk was scheduled on an output context that connect() has replaced
\* since; on the new context the cursor has advanced past the clock again
\* and the output is paused
C9_Witness ==
    /\ \E id \in 1..Len(arrived) :
          /\ WellFormed(arrived[id])
          /\ \A i \in 1..Len(scheduled) : scheduled[i].id # id
          /\ \A k \in 1..Len(ctxOps) : ctxOps[k].chunk # id
    /\ Len(scheduled) >= 1
    /\ nextStartTime > now
    /\ outCtx = "suspended"

PauseRequested ==
    /\ Len(ctxOps') = Len(ctxOps) + 1
    /\ ctxOps'[Len(ctxOps')].chunk = 0
PauseCarriedOut ==
    /\ ctxOps # <<>>
    /\ Head(ctxOps).chunk = 0
    /\ ctxOps' = Tail(ctxOps)
C11_PauseKeepsCursorAndBuffers ==
    [][/\ PauseRequested =>
            UNCHANGED <<pc, session, inCtx, outCtx, graph, mediaStream, micEnabled,
                        nextStartTime, now, scheduled, dropped, arrived, toolVars>>
       /\ PauseCarriedOut =>
            /\ UNCHANGED <<pc, session, inCtx, graph, mediaStream, micEnabled,
                           nextStartTime, now, scheduled, dropped, arrived, toolVars>>
            /\ outCtx' \in {outCtx, "suspended", "running"}
       /\ outCtx' = "null" => ctxOps' = <<>>]_vars
\* output paused with a buffer scheduled ahead of the clock, resume requested
C11_Witness ==
    /\ outCtx = "suspended"
    /\ scheduled # <<>>
    /\ nextStartTime > now
    /\ ctxOps # <<>> /\ Head(ctxOps).kind = "resume" /\ Head(ctxOps).chunk = 0

\* C12: the capture pipeline starts only after the remote stream is
\* established: while this.session is still null no microphone has been
\* requested or acquired, no capture graph exists and no capture callback
\* has fired (so after a failed handshake the microphone was never
\* requested), and every capture callback that fired found a session and
\* made its send.
C12_CaptureAfterHandshake ==
    /\ session = "null" =>
          /\ pc # "mic"
          /\ mediaStream = "null" /\ graph = "null"
          /\ captures = 0
    /\ Len(media) = captures
\* a capture callback has fired and sent on the open stream
C12_Witness ==
    /\ captures >= 1
    /\ media # <<>> /\ media[1].live
    /\ pc = "done"

\* C13: muting during active capture changes only the enabled flag of the
\* microphone tracks: session, capture graph, contexts and every other part
\* of the state are unchanged by a setMicMuted call, the capture callback
\* still fires and sends, and each block carries microphone content exactly
\* when the tracks were enabled at that callback, so that unmuting
\* restores content on the same stream.
C13_MuteChangesOnlyEnabledFlag ==
    [][/\ micEnabled' # micEnabled =>
            UNCHANGED <<lifeVars, playVars, now, ctxOps, arrived, toolVars, capVars>>
       /\ captures' = captures + 1 =>
            /\ Len(media') = Len(media) + 1
            /\ media'[Len(media')].content = micEnabled]_vars
\* content, then silence while muted, then content again, on one connection
C13_Witness ==
    /\ Len(media) = 3
    /\ media[1].content /\ ~media[2].content /\ media[3].content
    /\ \A i \in 1..3 : media[i].live

\* C14: while the session is open every capture callback makes exactly one
\* realtime input send tagged audio/pcm;rate=16000, appended after all
\* earlier ones (so sends are in callback order, none dropped), and no other
\* step (inbound message, resumed tool handler, control call) changes
\* the sequence of sends.
C14_OneMessagePerCallbackInOrder ==
    [][IF captures' = captures + 1 /\ session = "open"
       THEN /\ Len(media') = Len(media) + 1
            /\ SubSeq(media', 1, Len(media)) = media
            /\ media'[Len(media')].n = captures'
            /\ media'[Len(media')].mimeType = "audio/pcm;rate=16000"
       ELSE captures' = captures => media' = media]_vars
\* two blocks sent around an inbound invocation whose handler is still pending
C14_Witness ==
    /\ Len(media) >= 2
    /\ media[1].n = 1 /\ media[2].n = 2
    /\ \E m \in 1..Len(msgs) : msgs[m].waiting
    /\ \E k \in 1..Len(events) : events[k].kind = "resp"

\* the invocation with the given id among the delivered messages
CallById(ms, id) ==
    CHOOSE c \in UNION {{ms[m].calls[i] : i \in 1..Len(ms[m].calls)} : m \in 1..Len(ms)} :
        c.id = id
Acknowledgement(name) ==
    IF name = "saveAadhar" THEN {"Aadhar Saved"}
    ELSE IF name = "savePan" THEN {"PAN Saved"}
    ELSE IF name = "verifyDetails" THEN {"MATCH", "MISMATCH"}
    ELSE {"Account Created"}

\* C15: an invocation whose name is none of the four tool names invokes no
\* application callback and, once its message is handled, has been answered
\* with the generic ok result; a response is the generic ok result only for
\* such a name: a recognized name is answered with its own acknowledgement,
\* the handler's outcome or the error result.
C15_GenericOkOnlyForUnknownNames ==
    /\ \A k \in 1..Len(events) :
          LET e == events[k] IN
          /\ e.kind = "cb" => e.name \in ToolNames
          /\ e.kind = "resp" =>
                /\ e.resp = "ok" <=> e.name \notin ToolNames
                /\ e.name \in ToolNames => e.resp \in Acknowledgement(e.name) \cup {"error"}
    /\ \A m \in 1..Len(msgs) : \A i \in 1..Len(msgs[m].calls) :
          LET c == msgs[m].calls[i] IN
          (c.name \notin ToolNames /\ msgs[m].idx > i) =>
              \E k \in RespIdx(c.id) : events[k].resp = "ok"
\* one message with an unrecognized invocation answered ok next to a
\* recognized one whose callback threw
C15_Witness ==
    \E m \in 1..Len(msgs) :
       /\ Finished(m)
       /\ \E i, j \in 1..Len(msgs[m].calls) :
             /\ msgs[m].calls[i].name \notin ToolNames
             /\ \E k \in RespIdx(msgs[m].calls[i].id) : events[k].resp = "ok"
             /\ msgs[m].calls[j].name \in ToolNames /\ Failed(msgs[m].calls[j])
             /\ \E k \in RespIdx(msgs[m].calls[j].id) : events[k].resp = "error"

\* C16: the response of a verifyDetails invocation whose handler returned a
\* promise is sent only by the step in which that promise settles (the
\* activation was suspended on exactly this invocation), and when the
\* promise resolved, the status sent is the handler's outcome; the response
\* of a saveAadhar, savePan or createDigilocker invocation directly follows
\* its callback, with nothing in between.
C16_VerifyAnsweredAfterHandlerSettles ==
    [][/\ \A k \in (Len(events) + 1)..Len(events') :
            LET e == events'[k]
                c == CallById(msgs', e.id)
            IN (e.kind = "resp" /\ e.name = "verifyDetails" /\ c.out # "throw") =>
                  /\ e.msg <= Len(msgs)
                  /\ msgs[e.msg].waiting
                  /\ msgs[e.msg].calls[msgs[e.msg].idx].id = e.id
                  /\ c.out \in {"MATCH", "MISMATCH"} => e.resp = c.out
       /\ \A k \in 1..Len(events') :
            LET e == events'[k] IN
            (e.kind = "cb" /\ e.name # "verifyDetails") =>
                  /\ k + 1 <= Len(events')
                  /\ events'[k + 1].kind = "resp"
                  /\ events'[k + 1].id = e.id]_vars
\* a verification answered with the handler's status after another
\* message was handled while it was pending
C16_Witness ==
    \E k, j \in 1..Len(events) :
       /\ events[k].kind = "cb" /\ events[k].name = "verifyDetails"
       /\ events[j].kind = "resp" /\ events[j].id = events[k].id
       /\ j > k + 1
       /\ events[j].resp \in {"MATCH", "MISMATCH"}

\* C17: for every byte sequence b, the empty one included,
\* base64ToArrayBuffer(arrayBufferToBase64(b)) returns normally and equals b.
C17_Base64RoundTrip ==
    (util = "base64" /\ stage = 2) => (decoded.ok /\ decoded.bytes = bytes)
\* a buffer with a high byte whose text ends in padding, decoded again
C17_Witness ==
    /\ util = "base64" /\ stage = 2
    /\ Len(bytes) = 2 /\ bytes[1] = 255
    /\ Len(base64) = 4 /\ base64[4] = "="
    /\ decoded.bytes = bytes

\* the smallest integer not below a / b, for a >= 0 and b > 0
CeilDiv(a, b) == (a + b - 1) \div b

\* C18: downsampleTo16000(block, sourceRate) returns block itself when
\* sourceRate is 16000, and otherwise a new sequence of length
\* ceil(block.length * 16000 / sourceRate) (so ceil(block.length / 3) at
\* 48000 Hz, and 1366 samples for a block of 4096).
C18_ResampledLength ==
    (util = "downsample" /\ stage = 1) =>
        IF sampleRate = 16000
        THEN resampled.same /\ resampled.length = block
        ELSE /\ ~resampled.same
             /\ resampled.length = CeilDiv(block * 16000, sampleRate)
             /\ sampleRate = 48000 => resampled.length = CeilDiv(block, 3)
             /\ (sampleRate = 48000 /\ block = 4096) => resampled.length = 1366

\* C19: in downsampleTo16000, for every block length and source rate, both
\* input indices read for an output sample lie within 0..block.length-1,
\* and the upper index is the last valid index when index + 1 would pass it.
C19_ReadsInRange ==
    (util = "downsample" /\ stage = 1) =>
        \A i \in 1..Len(resampled.reads) :
            LET index == resampled.reads[i][1]
                nextIndex == resampled.reads[i][2]
            IN /\ index \in 0..(block - 1)
               /\ nextIndex \in 0..(block - 1)
               /\ index + 1 > block - 1 => nextIndex = block - 1

\* |x - y| * scale <= 1
Distance(x, y, xm, ym) ==
    IF IsNegative(x) = IsNegative(y)
    THEN (IF BigCmp(xm, ym) >= 0 THEN BigSub(xm, ym) ELSE BigSub(ym, xm))
    ELSE BigAdd(xm, ym)
WithinAt(x, y, scale, k) ==
    BigCmp(BigMul(Distance(x, y, BigShl(x.m, x.e - k), BigShl(y.m, y.e - k)), BigOf(scale)),
           BigShl(<<1>>, -k)) <= 0
Within(x, y, scale) == WithinAt(x, y, scale, Min(x.e, y.e))

\* C20: for every sample x in [-1, 1] the encoded value is x times 32768
\* (x negative) or 32767 (otherwise) with the fraction dropped, and the
\* value decoded from it differs from x by at most one quantization step,
\* 1/32768 for negative x and 1/32767 otherwise.
C20_QuantizationRoundTrip ==
    (util = "pcm16" /\ sample \in (-GridOne)..GridOne) =>
        /\ stage >= 1 =>
              pcm = IF sample < 0 THEN -((-sample * 32768) \div GridOne)
                    ELSE (sample * 32767) \div GridOne
        /\ stage = 2 =>
              Within(FromGrid(sample, GridBits), restored,
                     IF sample < 0 THEN 32768 ELSE 32767)
\* a positive sample whose scaled value had a fraction to drop, decoded
C20_Witness ==
    /\ util = "pcm16" /\ stage = 2
    /\ sample > 0 /\ sample < GridOne
    /\ pcm * GridOne < sample * 32767
    /\ restored.m # <<>>

\* C23: once the output is paused with setOutputPaused(true), the output
\* clock stays suspended until setOutputPaused(false) is called: the context
\* goes from suspended to running only when the platform carries out a
\* resume that setOutputPaused requested, never one requested by queueAudio
\* for an arriving chunk.
C23_PausedUntilResumeRequested ==
    [][(outCtx = "suspended" /\ outCtx' = "running") =>
           (ctxOps # <<>> /\ Head(ctxOps).kind = "resume" /\ Head(ctxOps).chunk = 0)]_vars

\* the events appended by a step
NewEvents == SubSeq(events', Len(events) + 1, Len(events'))

\* C24: after disconnect() has been called the bridge makes no further send
\* on the remote stream: no sendRealtimeInput from a later capture callback
\* and no sendToolResponse from a handler that completes after the call.
C24_NothingSentAfterDisconnect ==
    [][discSinceStart > 0 =>
           /\ media' = media
           /\ \A k \in 1..Len(NewEvents) : NewEvents[k].kind # "resp"]_vars

\* the fields of AppState other than the given ones keep their values
OtherFieldsKept(fields) == \A f \in (DOMAIN appState) \ fields : appState'[f] = appState[f]

\* C21: each tool handler sets a fixed phase and records its data, whatever
\* the phase was, and leaves every other AppState field unchanged:
\* saveAadhar sets PAN and aadhar, savePan sets VERIFY and pan, verifyDetails
\* sets DIGILOCKER and verification, createDigilocker sets COMPLETE and
\* digilocker {isCreated: true, pin}.
C21_HandlersSetPhaseAndData ==
    [][handled' # handled =>
         /\ handled'.name = "saveAadhar" =>
               /\ appState'.phase = "PAN" /\ appState'.aadhar = handled'.arg
               /\ OtherFieldsKept({"phase", "aadhar"})
         /\ handled'.name = "savePan" =>
               /\ appState'.phase = "VERIFY" /\ appState'.pan = handled'.arg
               /\ OtherFieldsKept({"phase", "pan"})
         /\ handled'.name = "verifyDetails" =>
               /\ appState'.phase = "DIGILOCKER" /\ appState'.verification = "MATCH"
               /\ OtherFieldsKept({"phase", "verification"})
         /\ handled'.name = "createDigilocker" =>
               /\ appState'.phase = "COMPLETE"
               /\ appState'.digilocker = [isCreated |-> TRUE, pin |-> handled'.arg]
               /\ OtherFieldsKept({"phase", "digilocker"})]_vars
\* saveAadhar handled after the account was created, in a connected session:
\* the phase went from COMPLETE back to PAN and the account data stayed
C21_Witness ==
    /\ handled.name = "saveAadhar" /\ handled.n = 2
    /\ appState.phase = "PAN" /\ appState.aadhar = handled.arg
    /\ appState.digilocker.isCreated
    /\ appState.isConnected

\* a step in which a startVerification call fails: without a key in the
\* environment, or with connect() of service s rejecting
FailsWithoutKey == ~env.apiKey /\ error' # error /\ error' = MissingKey
FailsAt(s) == services[s].pc # "failed" /\ services'[s].pc = "failed"
\* a step in which the application becomes connected
BecomesConnected == ~appState.isConnected /\ appState'.isConnected
ResolvesAt(s) == services[s].pc = "mic" /\ services'[s].pc = "done"

LiveSessions == {s \in 1..Len(services) : services[s].session = "open"}
ConnectedServices == {s \in 1..Len(services) : services[s].pc = "done"}

\* C25: at most one live session exists at any time, and every service
\* whose connect() succeeded is the one held in geminiServiceRef or has been
\* disconnected, whatever the interleaving of Start Verification and End
\* Session.
C25_ConnectedServiceHeldOrDisconnected ==
    /\ Cardinality(LiveSessions) <= 1
    /\ \A s \in ConnectedServices : geminiServiceRef = s \/ services[s].disconnected

\* C26: whenever the application is not connected the phase is IDLE; no
\* tool handler moves it away from IDLE while disconnected.
C26_IdleWhileDisconnected == ~appState.isConnected => appState.phase = "IDLE"

\* C27: the account is created only after a successful cross-verification:
\* digilocker.isCreated, and phase COMPLETE, imply that verification is
\* MATCH and that both aadhar and pan have been saved.
C27_AccountOnlyAfterMatch ==
    (appState.digilocker.isCreated \/ appState.phase = "COMPLETE") =>
        /\ appState.verification = "MATCH"
        /\ appState.aadhar # "null" /\ appState.pan # "null"

\* C28: while connected, micMuted is true exactly when the microphone
\* tracks of the held session are disabled.
C28_MicFlagMatchesTracks ==
    (appState.isConnected /\ geminiServiceRef # 0) =>
        (micMuted <=> ~services[geminiServiceRef].micEnabled)

====
